---- MODULE Spec2Model ----
(***************************************************************************)
(* Model of the character-keyed trie of src/src/lib.rs: Trie::add,         *)
(* Trie::search, Trie::delete (with its inner delete_recursive) and        *)
(* Trie::count.                                                            *)
(*                                                                         *)
(* A Node owns a HashMap<char, Node>, so every node of the tree is named   *)
(* by the sequence of chars on the path from the root to it.  The tree     *)
(* owned by Trie.root is therefore represented by a record                 *)
(*     [nodes  : the set of paths of the nodes that exist,                 *)
(*      is_end : the set of paths of the nodes whose is_end flag is true]  *)
(* where the root node itself is the empty path << >>.                     *)
(*                                                                         *)
(* A word is a sequence of chars; a char is its Unicode scalar value, so   *)
(* that the byte length of a word (str::len) and its number of chars       *)
(* (str::chars) are distinct quantities, as they are in the source.        *)
(***************************************************************************)
EXTENDS Integers, Sequences, FiniteSets

\* Longest word (in chars) passed to the trie.
MaxLen == 2
\* Largest number of add calls in one run.
MaxAdds == 3

\* The chars words are made of: 'a' (one byte in UTF-8) and U+00E9 (two bytes
\* in UTF-8).
Alphabet == {97, 233}

Words == UNION {[1..n -> Alphabet] : n \in 0..MaxLen}

\* The node type: the tree built by Node::default() has the root only.
EmptyNode == [nodes |-> {<< >>}, is_end |-> {}]

----------------------------------------------------------------------------
(* Text primitives used by the source. *)

\* char::len_utf8, the number of bytes a char takes in a &str.
len_utf8(c) ==
    IF c < 128 THEN 1 ELSE IF c < 2048 THEN 2 ELSE IF c < 65536 THEN 3 ELSE 4

\* word.len(): the length of a &str in BYTES.
RECURSIVE ByteLenFrom(_, _)
ByteLenFrom(word, i) ==
    IF i > Len(word) THEN 0 ELSE len_utf8(word[i]) + ByteLenFrom(word, i + 1)

str_len(word) == ByteLenFrom(word, 1)

\* Option::None of word.chars().nth(index); no char has this value.
None == -1

\* word.chars().nth(index): the char at 0-based char position index, or
\* None past the last char.
chars_nth(word, index) ==
    IF index < Len(word) THEN word[index + 1] ELSE None

----------------------------------------------------------------------------
(* Node helpers. *)

\* p is a prefix of q (q lies in the subtree of p).
IsPrefix(p, q) ==
    /\ Len(p) <= Len(q)
    /\ \A i \in 1..Len(p) : p[i] = q[i]

\* The keys of node.children.
Children(r, node) == {c \in Alphabet : Append(node, c) \in r.nodes}

\* node.children.is_empty()
ChildrenIsEmpty(r, node) == Children(r, node) = {}

\* entry.remove_entry(): the child leaves its parent's map and is dropped
\* together with everything it owns.
RemoveEntry(r, child) ==
    [nodes  |-> {p \in r.nodes : ~IsPrefix(child, p)},
     is_end |-> {p \in r.is_end : ~IsPrefix(child, p)}]

----------------------------------------------------------------------------
(* Trie::add *)

\* The loop of add: entry(c).or_insert(Node { .. }) for every char of the
\* word; the result is the tree and the node `current` ends on.
RECURSIVE AddDescend(_, _, _, _)
AddDescend(r, current, word, i) ==
    IF i > Len(word)
    THEN [root |-> r, current |-> current]
    ELSE LET next == Append(current, word[i])
         IN AddDescend([r EXCEPT !.nodes = @ \cup {next}], next, word, i + 1)

\* Variant of add that counts a word only when it was not yet stored.
TrieAddCountOnce(t, word) ==
    LET d == AddDescend(t.root, << >>, word, 1)
    IN [root  |-> [d.root EXCEPT !.is_end = @ \cup {d.current}],
        count |-> IF d.current \in t.root.is_end THEN t.count ELSE t.count + 1]

\* Variant of add that counts a word only when it created a node.
TrieAddCountNew(t, word) ==
    LET d == AddDescend(t.root, << >>, word, 1)
    IN [root  |-> [d.root EXCEPT !.is_end = @ \cup {d.current}],
        count |-> IF d.root.nodes = t.root.nodes THEN t.count ELSE t.count + 1]

\* add(&mut self, word): descend, set is_end, count += 1.
TrieAdd(t, word) ==
    LET d == AddDescend(t.root, << >>, word, 1)
    IN [root  |-> [d.root EXCEPT !.is_end = @ \cup {d.current}],
        count |-> t.count + 1]

----------------------------------------------------------------------------
(* Trie::search *)

\* Variant of search that accepts any path that exists (a prefix search).
RECURSIVE SearchFromPrefix(_, _, _, _)
SearchFromPrefix(r, current, word, i) ==
    IF i > Len(word)
    THEN TRUE
    ELSE LET found == Append(current, word[i])
         IN IF found \in r.nodes
            THEN SearchFromPrefix(r, found, word, i + 1)
            ELSE FALSE

\* The loop of search (lines 42-49) and its final `current.is_end`.
RECURSIVE SearchFrom(_, _, _, _)
SearchFrom(r, current, word, i) ==
    IF i > Len(word)
    THEN current \in r.is_end
    ELSE LET found == Append(current, word[i])
         IN IF found \in r.nodes
            THEN SearchFrom(r, found, word, i + 1)
            ELSE FALSE

\* search(&self, word) -> bool
TrieSearch(t, word) == SearchFrom(t.root, << >>, word, 1)

----------------------------------------------------------------------------
(* Trie::delete *)

\* Result<bool, TrieError> of delete_recursive, together with the tree as the
\* call leaves it.  "Panic" is the unwrap() of a None at line 64.
Ok(r, b) == [tag |-> "Ok", value |-> b, root |-> r]
Err(r) == [tag |-> "WordNotFound", value |-> FALSE, root |-> r]
Panic(r) == [tag |-> "Panic", value |-> FALSE, root |-> r]

\* Variant of the pruning signal that ignores the node's own is_end.
PruneSignalNoEnd(r, node) == ChildrenIsEmpty(r, node)

\* line 71: node.children.is_empty() && !node.is_end
PruneSignal(r, node) == ChildrenIsEmpty(r, node) /\ node \notin r.is_end

\* line 62: node.children.is_empty()
BaseSignal(r, node) == ChildrenIsEmpty(r, node)

\* Variant of the child removal that never removes.
AfterChildKeep(r, child, should_delete) == r

\* lines 69-70: if should_delete { entry.remove_entry(); }
AfterChild(r, child, should_delete) ==
    IF should_delete THEN RemoveEntry(r, child) ELSE r

RECURSIVE delete_recursive(_, _, _, _)
delete_recursive(r, node, word, index) ==
    IF index = str_len(word)
    THEN IF node \notin r.is_end
         THEN Err(r)
         ELSE LET r1 == [r EXCEPT !.is_end = @ \ {node}]
              IN Ok(r1, BaseSignal(r1, node))
    ELSE LET c == chars_nth(word, index)
         IN IF c = None
            THEN Panic(r)
            ELSE LET child == Append(node, c)
                 IN IF child \in r.nodes
                    THEN LET sub == delete_recursive(r, child, word, index + 1)
                         IN IF sub.tag # "Ok"
                            THEN sub
                            ELSE LET r2 == AfterChild(sub.root, child, sub.value)
                                 IN IF sub.value
                                    THEN Ok(r2, PruneSignal(r2, node))
                                    ELSE Ok(r2, FALSE)
                    ELSE Err(r)

\* Variant of delete that decrements count whatever the result.
TrieDeleteAlwaysCount(t, word) ==
    LET result == delete_recursive(t.root, << >>, word, 0)
    IN [root  |-> result.root,
        count |-> t.count - 1,
        ret   |-> result.tag]

\* delete(&mut self, word): lines 78-84.
TrieDelete(t, word) ==
    LET result == delete_recursive(t.root, << >>, word, 0)
    IN [root  |-> result.root,
        count |-> IF result.tag = "Ok" THEN t.count - 1 ELSE t.count,
        ret   |-> result.tag]

----------------------------------------------------------------------------------------------------------------------------------------
(* The state machine: a caller issuing add, search and delete calls. *)

VARIABLES
    root,       \* Trie.root
    count,      \* Trie.count
    ret,        \* what the last call returned
    adds,       \* number of add calls made so far
    okDeletes,  \* number of delete calls that returned Ok so far
    stored,     \* words added and not successfully deleted since
    undo        \* an add of a word that was not stored, and the delete of
                \* that word that immediately follows it

vars == <<root, count, ret, adds, okDeletes, stored, undo>>

trie == [root |-> root, count |-> count]

NoUndo == [phase |-> "none", word |-> << >>, trie |-> [root |-> EmptyNode, count |-> 0]]

\* Trie::default()
Init ==
    /\ root = EmptyNode
    /\ count = 0
    /\ ret = "Unit"
    /\ adds = 0
    /\ okDeletes = 0
    /\ stored = {}
    /\ undo = NoUndo

\* A panic ends the program: no call follows it.
Running == ret # "Panic"

Add(word) ==
    /\ Running
    /\ adds < MaxAdds
    /\ LET t == TrieAdd(trie, word)
       IN /\ root' = t.root
          /\ count' = t.count
    /\ ret' = "Unit"
    /\ adds' = adds + 1
    /\ stored' = stored \cup {word}
    /\ undo' = IF TrieSearch(trie, word)
               THEN NoUndo
               ELSE [phase |-> "added", word |-> word, trie |-> trie]
    /\ UNCHANGED okDeletes

Search(word) ==
    /\ Running
    /\ ret' = IF TrieSearch(trie, word) THEN "true" ELSE "false"
    /\ undo' = NoUndo
    /\ UNCHANGED <<root, count, adds, okDeletes, stored>>

Delete(word) ==
    /\ Running
    /\ LET d == TrieDelete(trie, word)
       IN /\ root' = d.root
          /\ count' = d.count
          /\ ret' = d.ret
          /\ okDeletes' = IF d.ret = "Ok" THEN okDeletes + 1 ELSE okDeletes
          /\ stored' = IF d.ret = "Ok" THEN stored \ {word} ELSE stored
    /\ undo' = IF undo.phase = "added" /\ undo.word = word
               THEN [undo EXCEPT !.phase = "deleted"]
               ELSE NoUndo
    /\ UNCHANGED adds

Next ==
    \/ \E word \in Words : Add(word)
    \/ \E word \in Words : Search(word)
    \/ \E word \in Words : Delete(word)

Spec == Init /\ [][Next]_vars

----------------------------------------------------------------------------
(* Properties. *)

\* The nodes reachable from the root: those whose every ancestor exists.
Reachable(r) ==
    {p \in r.nodes : \A k \in 0..Len(p) : SubSeq(p, 1, k) \in r.nodes}

\* The words search answers true for.
Found == {w \in Words : TrieSearch(trie, w)}

\* A step that is the call delete(w).  Only delete returns one of these
\* values, which tells the step from an add or a search at once.
DeleteStep(w) == ret' \in {"Ok", "WordNotFound", "Panic"} /\ Delete(w)

\* C1: for every word w, the empty word and strict prefixes of stored words
\* included, search(w) is true iff w was added and not successfully deleted
\* since its most recent add.
C1_SearchIffStored == \A w \in Words : TrieSearch(trie, w) <=> w \in stored

\* C1 witness: a search has just answered false while a stored word has a
\* strict prefix that is not stored, after some delete succeeded.
C1_Witness ==
    /\ ret = "false"
    /\ okDeletes > 0
    /\ \E w \in stored : \E p \in Words \ stored : p # w /\ IsPrefix(p, w)

\* C2: count() equals the number of nodes reachable from the root whose
\* is_end flag is true, in every reachable state, repeated adds included.
C2_CountEqualsEndNodes ==
    count = Cardinality({p \in Reachable(root) : p \in root.is_end})

\* C3: count() equals the number of add calls minus the number of delete
\* calls that returned success; every add increments it by one, also when
\* the word is already stored, and a failed delete does not change it.
C3_CountIsAddsMinusDeletes == count = adds - okDeletes

\* C3 witness: a word stored once was added again (count exceeds the number
\* of stored words), a delete succeeded and the last delete failed.
C3_Witness ==
    /\ ret = "WordNotFound"
    /\ okDeletes > 0
    /\ count > Cardinality(stored)

\* C4: delete(w) returns WordNotFound exactly when search(w) would return
\* false in that state, and success exactly when search(w) would return true.
C4_DeleteResultMatchesSearch ==
    [][\A w \in Words :
         DeleteStep(w) =>
           /\ ret' = "WordNotFound" <=> ~TrieSearch(trie, w)
           /\ ret' = "Ok" <=> TrieSearch(trie, w)]_vars

\* C5: whenever delete(w) returns WordNotFound, the whole trie is what it was
\* before the call: no is_end flag cleared, no child removed, count unchanged.
C5_FailedDeleteChangesNothing ==
    [][\A w \in Words :
         (ret' = "WordNotFound" /\ DeleteStep(w)) =>
           /\ root'.nodes = root.nodes
           /\ root'.is_end = root.is_end
           /\ count' = count]_vars

\* C5 witness: a delete has just failed on a trie that stores words.
C5_Witness ==
    /\ ret = "WordNotFound"
    /\ stored # {}
    /\ \E p \in root.nodes : p # << >>

\* C6: a successful delete(w) leaves search(v) as it was for every word v
\* other than w: v a prefix of w, w a prefix of v, v and w sharing a prefix.
C6_DeleteKeepsOtherWords ==
    [][\A w \in Words :
         (ret' = "Ok" /\ DeleteStep(w)) =>
           \A v \in Words \ {w} : TrieSearch(trie', v) <=> TrieSearch(trie, v)]_vars

\* C6 witness: the word just added was deleted again with success while the
\* trie keeps a stored prefix of it, or a stored extension of it, or a stored
\* word that shares its first char and then differs.
C6_Witness ==
    /\ undo.phase = "deleted"
    /\ ret = "Ok"
    /\ \E v \in stored :
         /\ v # undo.word
         /\ \/ v # << >> /\ IsPrefix(v, undo.word)
            \/ undo.word # << >> /\ IsPrefix(undo.word, v)
            \/ /\ Len(v) > 1 /\ Len(undo.word) > 1
               /\ v[1] = undo.word[1]

\* C7: delete(w) returns success or WordNotFound and never panics, for every
\* word, the empty word and words with multi-byte chars included.
C7_NoPanic == ret # "Panic"

\* C8: where w is not stored, add(w) followed by delete(w) succeeds and
\* leaves search(w) false, count() and the tree of nodes as before the add.
C8_DeleteUndoesAdd ==
    undo.phase = "deleted" =>
        /\ ret = "Ok"
        /\ ~TrieSearch(trie, undo.word)
        /\ count = undo.trie.count
        /\ root = undo.trie.root

\* C9: no node other than the root has is_end false and no children; the
\* root is never removed; delete never removes a node whose is_end is true
\* or that still has another child.
NoDeadLeaf(r) ==
    /\ << >> \in r.nodes
    /\ \A p \in r.nodes \ {<< >>} : p \in r.is_end \/ ~ChildrenIsEmpty(r, p)

C9_Pruning ==
    [][/\ NoDeadLeaf(root)
       /\ NoDeadLeaf(root')
       /\ \A p \in root.nodes \ root'.nodes :
            \A w \in Words :
              DeleteStep(w) =>
                /\ p \in root.is_end => p = w
                /\ \A c \in Children(root, p) : Append(p, c) \notin root'.nodes
                /\ p \notin root'.is_end]_vars

\* C9 witness: the word just added was deleted again with success, the path
\* to it had more than one node, and another word is still stored.
C9_Witness ==
    /\ undo.phase = "deleted"
    /\ ret = "Ok"
    /\ Len(undo.word) > 1
    /\ stored # {}

\* C10: count() is at least the number of distinct words search answers true
\* for, and so never negative.
C10_CountAtLeastFound ==
    /\ count >= Cardinality(Found)
    /\ count >= 0

\* C10 witness: after a successful delete, count is strictly above the number
\* of words found, and some word is found.
C10_Witness ==
    /\ okDeletes > 0
    /\ Found # {}
    /\ count > Cardinality(Found)

====
